---- MODULE Spec2Model ----
(***************************************************************************)
(* gaitbase: the conditional report renderer (reporter.py) and the ROM     *)
(* entry form (rom_entryapp.py) as state machines.                         *)
(*                                                                         *)
(* Text is a sequence of one-character strings, so that emptiness,         *)
(* concatenation and suffixes of rendered text are checkable.  A value is  *)
(* a record: [i |-> n] a Python int, [n |-> a, d |-> b] the quotient a/b   *)
(* in lowest terms, [s |-> text] a Python str.                             *)
(***************************************************************************)
EXTENDS Integers, Sequences, FiniteSets, TLC

VARIABLES
    \* ---- reporter.py ----
    blocks,             \* text_blocks of the template
    report_data,        \* the data mapping object handed to make_text_report
    fields_at_default,  \* names of the fields at their default values
    replace_data,       \* cfg.report.replace_data
    k,                  \* number of blocks _process_blocks has consumed
    block_formatted,    \* _process_blocks: the last formatted text block
    report_text,        \* _process_blocks: the text built so far
    rpc,                \* "idle" | "loop": position of the renderer
    outs,               \* results of the finished make_text_report calls
    \* ---- the autocalculate callbacks of rom_entryapp.py, on their own ----
    norm_in,            \* values of the widgets in _autoinputs: <<val, weight>>
    norm_out,           \* what _weight_normalize did with them
    scale_in,           \* currentText of each widget in _autoinputs
    scale_out,          \* what _SCALE_grade_to_pts set the total to
    \* ---- EntryApp (rom_entryapp.py) ----
    phase,              \* "none" | "editing" | "closed" | "failed" | "aborted"
    widgets,            \* the value each input widget holds
    focus,              \* whether the text widget has the keyboard focus
    data,               \* EntryApp.data
    data_default,       \* EntryApp.data_default
    do_update_data,     \* EntryApp.do_update_data
    confirm_close,      \* EntryApp.confirm_close
    newly_created,      \* EntryApp.newly_created
    db,                 \* the row of table roms with rom_id (NULL: no value)
    log,                \* what the last event did, in order
    write_failures,     \* how many updates of the row have failed so far
    \* ---- make_excel_report (reporter.py) ----
    r_sheet,            \* the cells of the template sheet, row by row
    w_sheet,            \* the values of the cells of the copy
    xls_data,           \* the data mapping object handed to make_excel_report
    xls_at_default,     \* names of the fields at their default values
    xls_replace_strings,\* cfg.report.xls_replace_strings, as (old, new) pairs
    ncell,              \* number of cells the loop has consumed
    xpc                 \* "idle" | "cells" | "returned" | the exception raised

rvars == <<blocks, report_data, fields_at_default, replace_data, k,
           block_formatted, report_text, rpc, outs>>

dvars == <<norm_in, norm_out, scale_in, scale_out>>

avars == <<phase, widgets, focus, data, data_default, do_update_data,
           confirm_close, newly_created, db, log, write_failures>>

xvars == <<r_sheet, w_sheet, xls_data, xls_at_default, xls_replace_strings,
           ncell, xpc>>

vars == <<rvars, dvars, avars, xvars>>

-----------------------------------------------------------------------------
(* Bounds *)
MaxBlocks == 3      \* longest template
MaxCalls == 2       \* make_text_report calls on one data mapping object
MaxNum == 6         \* largest input of an autocalculate callback on its own
MaxWeight == 2      \* largest weight the user enters in the form
MaxRaw == 1         \* largest unnormalized value the user enters in the form
MaxWriteFailures == 1   \* updates of the row that fail (a locked database)

-----------------------------------------------------------------------------
(* Values and text *)
IntV(n) == [i |-> n]
TxtV(t) == [s |-> t]
IsInt(v) == "i" \in DOMAIN v
IsTxt(v) == "s" \in DOMAIN v
IsNum(v) == "n" \in DOMAIN v

RECURSIVE GCD(_, _)
GCD(a, b) == IF b = 0 THEN a ELSE GCD(b, a % b)

\* the number a / b (b # 0) in lowest terms
Quot(a, b) ==
    LET g == GCD(IF a < 0 THEN -a ELSE a, IF b < 0 THEN -b ELSE b)
        sgn == IF b < 0 THEN -1 ELSE 1
    IN  [n |-> sgn * (a \div g), d |-> sgn * (b \div g)]
NumV(a) == [n |-> a, d |-> 1]

DigitChar == <<"0", "1", "2", "3", "4", "5", "6", "7", "8", "9">>

RECURSIVE NatToStr(_)
NatToStr(n) ==
    IF n < 10 THEN <<DigitChar[n + 1]>>
    ELSE NatToStr(n \div 10) \o <<DigitChar[(n % 10) + 1]>>

\* str(value), as str.format applies it to a field with an empty format spec
Str(v) ==
    IF IsInt(v)
    THEN IF v.i < 0 THEN <<"-">> \o NatToStr(-v.i) ELSE NatToStr(v.i)
    ELSE v.s

-----------------------------------------------------------------------------
(* Template blocks: what string.Formatter().parse yields for a block, as a *)
(* sequence of literal runs and replacement fields.                        *)
Lit(t) == [lit |-> t]
Fld(name) == [fld |-> name]
IsFld(tok) == "fld" \in DOMAIN tok

conditional_dot == <<[dot |-> TRUE]>>
ITEM_SEPARATOR == <<".", " ">>

\* "{age} years old"
BlkAge == <<Fld("age"), Lit(<<" ", "y", "e", "a", "r", "s", " ", "o", "l", "d">>)>>
\* "weight {weight}kg"
BlkWeight == <<Lit(<<"w", "e", "i", "g", "h", "t", " ">>), Fld("weight"), Lit(<<"k", "g">>)>>
\* "{age}/{weight}"
BlkBoth == <<Fld("age"), Lit(<<"/">>), Fld("weight")>>
\* "ROM"
BlkTitle == <<Lit(<<"R", "O", "M">>)>>
\* "id {ghost}": a field name that is not in the data
BlkGhost == <<Lit(<<"i", "d", " ">>), Fld("ghost")>>

TextBlocks == {BlkAge, BlkWeight, BlkBoth, BlkTitle, BlkGhost}
Blocks == TextBlocks \cup {conditional_dot}

SeqsUpTo(S, n) == UNION {[1..m -> S] : m \in 0..n}

RECURSIVE Concat(_)
Concat(ss) == IF ss = <<>> THEN <<>> ELSE Head(ss) \o Concat(Tail(ss))

\* _get_format_fields: the field names of a block, in order
_get_format_fields(thestr) ==
    LET idx == {j \in 1..Len(thestr) : IsFld(thestr[j])}
        RECURSIVE Collect(_)
        Collect(j) ==
            IF j > Len(thestr) THEN <<>>
            ELSE IF j \in idx THEN <<thestr[j].fld>> \o Collect(j + 1)
            ELSE Collect(j + 1)
    IN  Collect(1)

Ok(t) == [ok |-> TRUE, text |-> t]
KeyError(name) == [ok |-> FALSE, key |-> name]

\* Format, had a field that data lacks been rendered as empty text
Format_Silent(thestr, rdata) ==
    Ok(Concat([j \in 1..Len(thestr) |->
        IF IsFld(thestr[j])
        THEN IF thestr[j].fld \in DOMAIN rdata THEN Str(rdata[thestr[j].fld]) ELSE <<>>
        ELSE thestr[j].lit]))

\* thestr.format(**data): KeyError on the first field that data lacks
Format(thestr, rdata) ==
    LET flds == _get_format_fields(thestr)
        missing == {j \in 1..Len(flds) : flds[j] \notin DOMAIN rdata}
    IN  IF missing # {}
        THEN KeyError(flds[CHOOSE j \in missing : \A m \in missing : j <= m])
        ELSE Ok(Concat([j \in 1..Len(thestr) |->
                 IF IsFld(thestr[j]) THEN Str(rdata[thestr[j].fld])
                 ELSE thestr[j].lit]))

\* _conditional_format, had it formatted only when no field is at default
_conditional_format_All(thestr, rdata, at_default) ==
    LET flds == _get_format_fields(thestr)
    IN  IF flds = <<>> \/ \A j \in 1..Len(flds) : flds[j] \notin at_default
        THEN Format(thestr, rdata)
        ELSE Ok(<<>>)

_conditional_format(thestr, rdata, at_default) ==
    LET flds == _get_format_fields(thestr)
    IN  IF flds = <<>> \/ \E j \in 1..Len(flds) : flds[j] \notin at_default
        THEN Format(thestr, rdata)
        ELSE Ok(<<>>)

\* the replacement loop at the top of make_text_report, on the dict itself
ReplaceValues(rdata, table) ==
    [f \in DOMAIN rdata |->
        IF rdata[f] \in DOMAIN table THEN table[rdata[f]] ELSE rdata[f]]

-----------------------------------------------------------------------------
(* Inputs of the renderer *)
AgeValues == {IntV(10), TxtV(<<>>)}
WeightValues == {IntV(35), TxtV(<<"a">>), TxtV(<<"b">>)}

NoReplace == [v \in {} |-> v]
ReplaceOne == [v \in {TxtV(<<"a">>)} |-> TxtV(<<"b">>)]
ReplaceChain ==
    [v \in {TxtV(<<"a">>), TxtV(<<"b">>)} |->
        IF v = TxtV(<<"a">>) THEN TxtV(<<"b">>) ELSE TxtV(<<"c">>)]
ReplaceTables == {NoReplace, ReplaceOne, ReplaceChain}

\* the renderer before any report is requested
RenderIdle ==
    /\ blocks = <<>>
    /\ report_data = <<>>
    /\ fields_at_default = {}
    /\ replace_data = <<>>
    /\ k = 0
    /\ block_formatted = <<>>
    /\ report_text = <<>>
    /\ rpc = "idle"
    /\ outs = <<>>

\* no autocalculate callback has run
DerivedIdle ==
    /\ norm_in = <<>>
    /\ norm_out = <<>>
    /\ scale_in = <<>>
    /\ scale_out = <<>>

\* no EntryApp has been constructed and the row does not exist
AppNone ==
    /\ phase = "none"
    /\ widgets = <<>>
    /\ focus = FALSE
    /\ data = <<>>
    /\ data_default = <<>>
    /\ do_update_data = FALSE
    /\ confirm_close = TRUE
    /\ newly_created = FALSE
    /\ db = <<>>
    /\ log = <<>>
    /\ write_failures = 0

\* make_excel_report has not been called
ExcelIdle ==
    /\ r_sheet = <<>>
    /\ w_sheet = <<>>
    /\ xls_data = <<>>
    /\ xls_at_default = {}
    /\ xls_replace_strings = <<>>
    /\ ncell = 0
    /\ xpc = "idle"

RenderInit ==
    /\ DerivedIdle
    /\ AppNone
    /\ ExcelIdle
    /\ blocks \in SeqsUpTo(Blocks, MaxBlocks)
    /\ \E a \in AgeValues, w \in WeightValues :
          report_data = [f \in {"age", "weight"} |-> IF f = "age" THEN a ELSE w]
    /\ fields_at_default \in SUBSET {"age", "weight"}
    /\ replace_data \in ReplaceTables
    /\ k = 0
    /\ block_formatted = <<>>
    /\ report_text = <<>>
    /\ rpc = "idle"
    /\ outs = <<>>

\* blocks[k - 1] of the source, for the 0-based position pos: Python wraps
\* the index -1 around to the last block
PrevBlock(pos) == IF pos = 0 THEN blocks[Len(blocks)] ELSE blocks[pos]

\* make_text_report up to the call of _process_blocks
MakeTextReport ==
    /\ UNCHANGED <<dvars, avars, xvars>>
    /\ rpc = "idle"
    /\ Len(outs) < MaxCalls
    /\ report_data' = ReplaceValues(report_data, replace_data)
    /\ k' = 0
    /\ block_formatted' = <<>>
    /\ report_text' = <<>>
    /\ rpc' = "loop"
    /\ UNCHANGED <<blocks, fields_at_default, replace_data, outs>>

\* StepSeparator, had it not looked at the block before the separator
StepSeparator_NoPrevCheck ==
    /\ UNCHANGED <<dvars, avars, xvars>>
    /\ rpc = "loop"
    /\ k < Len(blocks)
    /\ blocks[k + 1] = conditional_dot
    /\ report_text' =
          IF block_formatted # <<>>
          THEN report_text \o ITEM_SEPARATOR
          ELSE report_text
    /\ k' = k + 1
    /\ UNCHANGED <<blocks, report_data, fields_at_default, replace_data,
                   block_formatted, rpc, outs>>

\* StepSeparator, had it not looked at the last formatted block
StepSeparator_Always ==
    /\ UNCHANGED <<dvars, avars, xvars>>
    /\ rpc = "loop"
    /\ k < Len(blocks)
    /\ blocks[k + 1] = conditional_dot
    /\ report_text' =
          IF PrevBlock(k) # conditional_dot
          THEN report_text \o ITEM_SEPARATOR
          ELSE report_text
    /\ k' = k + 1
    /\ UNCHANGED <<blocks, report_data, fields_at_default, replace_data,
                   block_formatted, rpc, outs>>

\* StepSeparator, had the separator not been conditional
StepSeparator_Unconditional ==
    /\ UNCHANGED <<dvars, avars, xvars>>
    /\ rpc = "loop"
    /\ k < Len(blocks)
    /\ blocks[k + 1] = conditional_dot
    /\ report_text' = report_text \o ITEM_SEPARATOR
    /\ k' = k + 1
    /\ UNCHANGED <<blocks, report_data, fields_at_default, replace_data,
                   block_formatted, rpc, outs>>

\* one iteration of the loop of _process_blocks on a conditional_dot block
StepSeparator ==
    /\ UNCHANGED <<dvars, avars, xvars>>
    /\ rpc = "loop"
    /\ k < Len(blocks)
    /\ blocks[k + 1] = conditional_dot
    /\ report_text' =
          IF PrevBlock(k) # conditional_dot /\ block_formatted # <<>>
          THEN report_text \o ITEM_SEPARATOR
          ELSE report_text
    /\ k' = k + 1
    /\ UNCHANGED <<blocks, report_data, fields_at_default, replace_data,
                   block_formatted, rpc, outs>>

\* one iteration of the loop of _process_blocks on a text block; a KeyError
\* leaves _process_blocks and make_text_report without a result
StepText ==
    /\ UNCHANGED <<dvars, avars, xvars>>
    /\ rpc = "loop"
    /\ k < Len(blocks)
    /\ blocks[k + 1] # conditional_dot
    /\ LET r == _conditional_format(blocks[k + 1], report_data, fields_at_default)
       IN  IF r.ok
           THEN /\ block_formatted' = r.text
                /\ report_text' = report_text \o r.text
                /\ k' = k + 1
                /\ UNCHANGED <<rpc, outs>>
           ELSE /\ outs' = Append(outs, r)
                /\ rpc' = "idle"
                /\ UNCHANGED <<block_formatted, report_text, k>>
    /\ UNCHANGED <<blocks, report_data, fields_at_default, replace_data>>

\* return report_text
Return ==
    /\ UNCHANGED <<dvars, avars, xvars>>
    /\ rpc = "loop"
    /\ k = Len(blocks)
    /\ outs' = Append(outs, Ok(report_text))
    /\ rpc' = "idle"
    /\ UNCHANGED <<blocks, report_data, fields_at_default, replace_data, k,
                   block_formatted, report_text>>

RenderNext == MakeTextReport \/ StepSeparator \/ StepText \/ Return

SpecRender == RenderInit /\ [][RenderNext]_vars

-----------------------------------------------------------------------------
(* Properties of the renderer *)

Placeholders(b) == {b[j].fld : j \in {m \in 1..Len(b) : IsFld(b[m])}}

\* a block that has a placeholder and references defaulted fields only
Elidable(b) == Placeholders(b) # {} /\ Placeholders(b) \subseteq fields_at_default

\* the block with every placeholder replaced by the text of its field
Substituted(b) ==
    Concat([j \in 1..Len(b) |->
        IF IsFld(b[j]) THEN Str(report_data[b[j].fld]) ELSE b[j].lit])

Rendered(b) == IF Elidable(b) THEN <<>> ELSE Substituted(b)

EndsWith(t, suffix) ==
    /\ Len(t) >= Len(suffix)
    /\ SubSeq(t, Len(t) - Len(suffix) + 1, Len(t)) = suffix

Finished == rpc = "idle" /\ outs # <<>>
LastOut == outs[Len(outs)]

ScenarioBlocks == <<BlkAge, conditional_dot, BlkWeight>>
Scenario ==
    /\ blocks = ScenarioBlocks
    /\ report_data["age"] = IntV(10)
    /\ fields_at_default = {"weight"}
TenYearsOld == <<"1", "0", " ", "y", "e", "a", "r", "s", " ", "o", "l", "d">>

Piece(j) ==
    IF blocks[j] # conditional_dot THEN Rendered(blocks[j])
    ELSE IF j > 1 /\ blocks[j - 1] # conditional_dot /\ Rendered(blocks[j - 1]) # <<>>
         THEN ITEM_SEPARATOR
         ELSE <<>>

C2_SeparatorLaw ==
    (/\ Finished /\ LastOut.ok
     /\ Len(blocks) = 3
     /\ blocks[1] # conditional_dot
     /\ blocks[2] = conditional_dot
     /\ blocks[3] # conditional_dot) =>
        LET A == Rendered(blocks[1])
            B == Rendered(blocks[3])
        IN  /\ (A = <<>> /\ B # <<>>) => LastOut.text = B
            /\ (A # <<>> /\ B # <<>>) => LastOut.text = A \o ITEM_SEPARATOR \o B

C2_Witness ==
    /\ Finished /\ LastOut.ok
    /\ blocks = <<BlkAge, conditional_dot, BlkWeight>>
    /\ fields_at_default = {"age"}
    /\ LastOut.text # <<>>

\* C3: _conditional_format returns the empty string when the block has a
\* placeholder and every placeholder is in fields_at_default, and the fully
\* substituted block in every other case.
C3_ElisionLaw ==
    (k >= 1 /\ blocks[k] # conditional_dot) =>
        block_formatted =
            IF Placeholders(blocks[k]) # {}
               /\ \A name \in Placeholders(blocks[k]) : name \in fields_at_default
            THEN <<>>
            ELSE Substituted(blocks[k])

C3_Witness ==
    /\ k >= 2
    /\ blocks[k] = BlkBoth
    /\ blocks[k - 1] = BlkWeight
    /\ fields_at_default = {"weight"}
    /\ block_formatted = <<"1", "0", "/", "3", "5">>

UnknownNames == UNION {Placeholders(blocks[j]) : j \in 1..Len(blocks)} \ DOMAIN report_data

C5_Idempotent == (rpc = "idle" /\ Len(outs) >= 2) => outs[1] = outs[2]

\* a step of the loop of _process_blocks that consumes a conditional
\* separator and emits the separator string
EmitsSeparator ==
    /\ rpc = "loop"
    /\ k < Len(blocks)
    /\ k' = k + 1
    /\ blocks[k + 1] = conditional_dot
    /\ report_text' # report_text

\* C15: a conditional separator at any position emits the separator string
\* only if the block right before it is not a separator and a non-empty block
\* has been emitted in this pass; so the text never starts with a separator
\* and no separator directly follows another one.
C15_SeparatorOnlyIf ==
    [][EmitsSeparator =>
          /\ k >= 1
          /\ blocks[k] # conditional_dot
          /\ \E j \in 1..k : blocks[j] # conditional_dot /\ Rendered(blocks[j]) # <<>>
          /\ report_text # <<>>
          /\ ~EndsWith(report_text, ITEM_SEPARATOR)
          /\ report_text' = report_text \o ITEM_SEPARATOR]_vars

\* a separator in the first position emitted nothing, a later one did
C15_Witness ==
    /\ blocks = <<conditional_dot, BlkTitle, conditional_dot>>
    /\ k = 3
    /\ report_text = <<"R", "O", "M">> \o ITEM_SEPARATOR

-----------------------------------------------------------------------------
(* make_excel_report: the sheet is the sequence of its cells.  A cell holds *)
(* a string, given by what string.Formatter().parse yields for it, or a     *)
(* number (xlrd gives the value of a numeric cell as a float).              *)
MaxCells == 2       \* cells of the template sheet

TextCell(toks) == [text |-> toks]
NumCell(n) == [num |-> n]
IsNumCell(c) == "num" \in DOMAIN c

\* the characters of the field names used in cells
FieldChars ==
    [f \in {"score", "echo"} |->
        IF f = "score" THEN <<"s", "c", "o", "r", "e">> ELSE <<"e", "c", "h", "o">>]

\* a literal run as it is written in a format string: braces are doubled
Escape(t) ==
    Concat([j \in 1..Len(t) |-> IF t[j] \in {"{", "}"} THEN <<t[j], t[j]>> ELSE <<t[j]>>])

\* the string of a cell, of which toks is the parse
CellText(toks) ==
    Concat([j \in 1..Len(toks) |->
        IF IsFld(toks[j]) THEN <<"{">> \o FieldChars[toks[j].fld] \o <<"}">>
        ELSE Escape(toks[j].lit)])

\* cell.value
CellValue(c) == IF IsNumCell(c) THEN c ELSE CellText(c.text)

\* str.replace(old, new) for a non-empty old
RECURSIVE StrReplace(_, _, _)
StrReplace(t, old, new) ==
    IF Len(t) < Len(old) THEN t
    ELSE IF SubSeq(t, 1, Len(old)) = old
         THEN new \o StrReplace(SubSeq(t, Len(old) + 1, Len(t)), old, new)
         ELSE <<Head(t)>> \o StrReplace(Tail(t), old, new)

\* the loop over cfg.report.xls_replace_strings.items()
RECURSIVE ReplaceStrings(_, _)
ReplaceStrings(t, pairs) ==
    IF pairs = <<>> THEN t
    ELSE ReplaceStrings(StrReplace(t, Head(pairs)[1], Head(pairs)[2]), Tail(pairs))

\* the text written to a cell whose string is cell_text and whose
\* _conditional_format result is formatted
RewriteCell(cell_text, formatted, pairs) ==
    IF formatted # cell_text THEN ReplaceStrings(formatted, pairs) ELSE formatted

NA == <<"N", "/", "A">>
Dash == <<"-">>
\* "{score}"
CellScore == TextCell(<<Fld("score")>>)
\* "N/A": text only
CellPlain == TextCell(<<Lit(NA)>>)
\* "N/A {{x}}": text only, with braces escaped as a format string needs
CellBraces == TextCell(<<Lit(NA \o <<" ", "{", "x", "}">>)>>)
\* "{echo}"
CellEcho == TextCell(<<Fld("echo")>>)
\* an empty cell
CellEmpty == TextCell(<<>>)
\* a numeric cell
CellNumber == NumCell(3)
Cells == {CellScore, CellPlain, CellBraces, CellEcho, CellEmpty, CellNumber}

ScoreValues == {TxtV(NA), IntV(5)}
EchoValues == {TxtV(<<"{", "e", "c", "h", "o", "}">>)}
ReplaceStringTables == {<<>>, <<<<NA, Dash>>>>}

ExcelInit ==
    /\ DerivedIdle
    /\ AppNone
    /\ blocks = <<>>
    /\ report_data = <<>>
    /\ fields_at_default = {}
    /\ replace_data \in {NoReplace, ReplaceOne}
    /\ k = 0
    /\ block_formatted = <<>>
    /\ report_text = <<>>
    /\ rpc = "idle"
    /\ outs = <<>>
    /\ r_sheet \in SeqsUpTo(Cells, MaxCells)
    /\ w_sheet = <<>>
    /\ \E sc \in ScoreValues, e \in EchoValues :
          xls_data = [f \in {"score", "echo"} |-> IF f = "score" THEN sc ELSE e]
    /\ xls_at_default \in SUBSET {"score", "echo"}
    /\ xls_replace_strings \in ReplaceStringTables
    /\ ncell = 0
    /\ xpc = "idle"

\* make_excel_report up to the loop over the cells: the copy of the workbook
\* and the replacement loop on the data
MakeExcelReport ==
    /\ xpc = "idle"
    /\ w_sheet' = [j \in 1..Len(r_sheet) |-> CellValue(r_sheet[j])]
    /\ xls_data' = ReplaceValues(xls_data, replace_data)
    /\ ncell' = 0
    /\ xpc' = "cells"
    /\ UNCHANGED <<rvars, dvars, avars, r_sheet, xls_at_default, xls_replace_strings>>

\* one iteration of the loop over the cells; string.Formatter().parse raises
\* TypeError for a value that is not a str
StepCell ==
    /\ xpc = "cells"
    /\ ncell < Len(r_sheet)
    /\ LET c == r_sheet[ncell + 1]
       IN  IF IsNumCell(c)
           THEN IF c.num = 0
                THEN /\ ncell' = ncell + 1
                     /\ UNCHANGED <<w_sheet, xpc>>
                ELSE /\ xpc' = "TypeError"
                     /\ UNCHANGED <<w_sheet, ncell>>
           ELSE IF c.text = <<>>
           THEN /\ ncell' = ncell + 1
                /\ UNCHANGED <<w_sheet, xpc>>
           ELSE LET r == _conditional_format(c.text, xls_data, xls_at_default)
                IN  IF r.ok
                    THEN /\ w_sheet' = [w_sheet EXCEPT ![ncell + 1] =
                                RewriteCell(CellText(c.text), r.text, xls_replace_strings)]
                         /\ ncell' = ncell + 1
                         /\ UNCHANGED xpc
                    ELSE /\ xpc' = "KeyError"
                         /\ UNCHANGED <<w_sheet, ncell>>
    /\ UNCHANGED <<rvars, dvars, avars, r_sheet, xls_data, xls_at_default,
                   xls_replace_strings>>

\* return workbook_out
ExcelReturn ==
    /\ xpc = "cells"
    /\ ncell = Len(r_sheet)
    /\ xpc' = "returned"
    /\ UNCHANGED <<rvars, dvars, avars, r_sheet, w_sheet, xls_data, xls_at_default,
                   xls_replace_strings, ncell>>

ExcelNext == MakeExcelReport \/ StepCell \/ ExcelReturn

SpecExcel == ExcelInit /\ [][ExcelNext]_vars

HasPlaceholder(c) == ~IsNumCell(c) /\ Placeholders(c.text) # {}
NonEmptyCell(c) == IF IsNumCell(c) THEN c.num # 0 ELSE c.text # <<>>

\* C13 as claimed: make_excel_report writes every non-empty cell without a
\* placeholder back with the text of the template, whatever the rewrite table
\* holds, and writes "-" for a cell "{score}" whose value is "N/A", not at
\* default, under the rewrite table {"N/A": "-"}.
C13_RewriteOnlySubstituted ==
    /\ xpc \in {"idle", "cells", "returned"}
    /\ \A j \in 1..ncell :
          /\ (NonEmptyCell(r_sheet[j]) /\ ~HasPlaceholder(r_sheet[j])) =>
                w_sheet[j] = CellValue(r_sheet[j])
          /\ (/\ r_sheet[j] = CellScore
              /\ xls_data["score"] = TxtV(NA)
              /\ "score" \notin xls_at_default
              /\ xls_replace_strings = <<<<NA, Dash>>>>) =>
                w_sheet[j] = Dash

-----------------------------------------------------------------------------
(* The autocalculate callbacks (EntryApp._init_widgets) *)

\* Constants.spinbox_novalue_text, the value of a spinbox that holds no value
spinbox_novalue_text == TxtV(<<"E", "i", " ", "m", "i", "t", "a", "t", "t", "u">>)

Value(v) == [ok |-> TRUE, v |-> v]
Raised(exc) == [ok |-> FALSE, exc |-> exc]

\* _weight_normalize: the value it sets the autowidget to, or the exception
\* that val / weight raises
_weight_normalize(val, weight) ==
    LET noval == spinbox_novalue_text
    IN  IF val = noval \/ weight = noval THEN Value(noval)
        ELSE IF weight.n = 0 THEN Raised("ZeroDivisionError")
        ELSE Value(Quot(val.n * weight.d, val.d * weight.n))

\* the texts of a SCALE combobox; the last is 'Kykenematon (0)' with a-umlauts
grade_txt_2_pts ==
    [g \in {"Ei mitattu", "Normaali (2)", "Alentunnut (1)", "Kykenematon (0)"} |->
        CASE g = "Ei mitattu" -> -1
          [] g = "Normaali (2)" -> 2
          [] g = "Alentunnut (1)" -> 1
          [] g = "Kykenematon (0)" -> 0]

\* the inputs of a SCALE whole-limb total: hip, knee, ankle, STJ, toes
NScaleInputs == 5

\* _SCALE_grade_to_pts, had it added to the total from the start
RECURSIVE ScaleLoop_AddAlways(_, _)
ScaleLoop_AddAlways(texts, tot) ==
    IF texts = <<>> THEN tot
    ELSE LET cur == grade_txt_2_pts[Head(texts)]
         IN  ScaleLoop_AddAlways(Tail(texts), IF cur # -1 THEN tot + cur ELSE tot)

\* the loop of _SCALE_grade_to_pts over the remaining inputs
RECURSIVE ScaleLoop(_, _)
ScaleLoop(texts, tot) ==
    IF texts = <<>> THEN tot
    ELSE LET cur == grade_txt_2_pts[Head(texts)]
         IN  ScaleLoop(Tail(texts),
                 IF cur # -1 THEN (IF tot = -1 THEN cur ELSE tot + cur) ELSE tot)

\* _SCALE_grade_to_pts: the value passed to widget.setValue
_SCALE_grade_to_pts(texts) == ScaleLoop(texts, -1)

SpinboxValues == {spinbox_novalue_text} \cup {NumV(a) : a \in 0..MaxNum}

NormalizeInit ==
    /\ RenderIdle
    /\ AppNone
    /\ ExcelIdle
    /\ norm_in \in SpinboxValues \X SpinboxValues
    /\ norm_out = <<>>
    /\ scale_in = <<>>
    /\ scale_out = <<>>

\* widget._autocalculate() of a weight normalized autowidget
AutoCalcNorm ==
    /\ norm_in # <<>>
    /\ norm_out = <<>>
    /\ norm_out' = <<_weight_normalize(norm_in[1], norm_in[2])>>
    /\ UNCHANGED <<rvars, avars, xvars, norm_in, scale_in, scale_out>>

SpecNormalize == NormalizeInit /\ [][AutoCalcNorm]_vars

ScaleInit ==
    /\ RenderIdle
    /\ AppNone
    /\ ExcelIdle
    /\ norm_in = <<>>
    /\ norm_out = <<>>
    /\ scale_in \in [1..NScaleInputs -> DOMAIN grade_txt_2_pts]
    /\ scale_out = <<>>

\* widget._autocalculate() of a SCALE total autowidget
AutoCalcScale ==
    /\ scale_in # <<>>
    /\ scale_out = <<>>
    /\ scale_out' = <<_SCALE_grade_to_pts(scale_in)>>
    /\ UNCHANGED <<rvars, avars, xvars, norm_in, norm_out, scale_in>>

SpecScale == ScaleInit /\ [][AutoCalcScale]_vars

-----------------------------------------------------------------------------
(* Properties of the autocalculate callbacks *)

\* C7 as claimed: the derived value is the no-value sentinel when the raw or
\* the weight input is the sentinel; for every other pair of inputs the
\* computation completes and the derived value is raw / weight.
C7_WeightNormalize ==
    norm_out # <<>> =>
        LET val == norm_in[1]
            weight == norm_in[2]
            out == norm_out[1]
        IN  IF val = spinbox_novalue_text \/ weight = spinbox_novalue_text
            THEN out = Value(spinbox_novalue_text)
            ELSE /\ out.ok
                 /\ IsNum(out.v)
                 /\ out.v.n * weight.n * val.d = val.n * weight.d * out.v.d

RECURSIVE SumMeasured(_)
SumMeasured(texts) ==
    IF texts = <<>> THEN 0
    ELSE (IF Head(texts) = "Ei mitattu" THEN 0 ELSE grade_txt_2_pts[Head(texts)])
         + SumMeasured(Tail(texts))

Orders(n) == {p \in [1..n -> 1..n] : \A i, j \in 1..n : p[i] = p[j] => i = j}

\* C8: a SCALE total is -1 (not measured) when every input is 'Ei mitattu',
\* and otherwise the sum of the scores of the measured inputs; it is the
\* same for every order of the inputs.
C8_ScaleTotal ==
    scale_out # <<>> =>
        /\ scale_out[1] =
              IF \A i \in 1..Len(scale_in) : scale_in[i] = "Ei mitattu"
              THEN -1
              ELSE SumMeasured(scale_in)
        /\ \A p \in Orders(Len(scale_in)) :
              _SCALE_grade_to_pts([i \in 1..Len(scale_in) |-> scale_in[p[i]]]) = scale_out[1]

C8_Witness ==
    /\ scale_out = <<3>>
    /\ scale_in = <<"Ei mitattu", "Normaali (2)", "Kykenematon (0)", "Alentunnut (1)", "Ei mitattu">>

-----------------------------------------------------------------------------
(* EntryApp: the form, its Field Store and the row of table roms *)

NULL == [null |-> TRUE]

\* variable names: the widget names without Constants.input_widget_prefix
Pvm == "TiedotPvm"
Paino == "AntropPaino"
NormUn == "IsokinPolviEkstensioNormUn"
Norm == "IsokinPolviEkstensioNorm"
Vars == {Pvm, Paino, NormUn, Norm}

\* self.autowidgets and widget._autoinputs = [w_unnorm, weight_widget]
autowidgets == <<Norm>>
_autoinputs == [aw \in {Norm} |-> <<NormUn, Paino>>]

\* QLineEdit widgets: values_changed runs when they lose the focus
TextWidgets == {Pvm}

\* the state of the widgets as loaded from rom_entryapp.ui
WidgetDefaults ==
    [v \in Vars |-> IF v \in TextWidgets THEN TxtV(<<>>) ELSE spinbox_novalue_text]

Today == <<"0", "4", ".", "1", "1", ".", "2", "0", "2", "6">>
NoSuchDay == <<"3", "1", ".", "0", "2", ".", "2", "0", "2", "6">>
PvmTexts == {<<>>, Today, NoSuchDay}
WeightEdits == {spinbox_novalue_text} \cup {NumV(a) : a \in 0..MaxWeight}
RawEdits == {spinbox_novalue_text} \cup {NumV(a) : a \in 1..MaxRaw}

\* whether each update_rom of a handler finds the database writable
Outcomes == [1..(1 + Len(autowidgets)) -> BOOLEAN]
\* the same for a handler that makes one update
Outcome == {[j \in 1..(1 + Len(autowidgets)) |-> b] : b \in BOOLEAN}

(* utils._validate_date: strptime(datestr, '%d.%m.%Y') *)
IsDigit(c) == \E j \in 1..10 : DigitChar[j] = c
DigitVal(c) == (CHOOSE j \in 1..10 : DigitChar[j] = c) - 1

RECURSIVE ToNat(_)
ToNat(t) == IF t = <<>> THEN 0 ELSE 10 * ToNat(SubSeq(t, 1, Len(t) - 1)) + DigitVal(t[Len(t)])

IsLeap(y) == (y % 4 = 0 /\ y % 100 # 0) \/ y % 400 = 0
DaysIn(m, y) ==
    IF m = 2 THEN (IF IsLeap(y) THEN 29 ELSE 28)
    ELSE IF m \in {4, 6, 9, 11} THEN 30 ELSE 31

_validate_date(datestr) ==
    LET dots == {j \in 1..Len(datestr) : datestr[j] = "."}
    IN  /\ Cardinality(dots) = 2
        /\ \A j \in 1..Len(datestr) : j \in dots \/ IsDigit(datestr[j])
        /\ LET d1 == CHOOSE j \in dots : \A m \in dots : j <= m
               d2 == CHOOSE j \in dots : \A m \in dots : j >= m
               dd == SubSeq(datestr, 1, d1 - 1)
               mm == SubSeq(datestr, d1 + 1, d2 - 1)
               yyyy == SubSeq(datestr, d2 + 1, Len(datestr))
           IN  /\ Len(dd) \in 1..2
               /\ Len(mm) \in 1..2
               /\ Len(yyyy) = 4
               /\ ToNat(yyyy) >= 1
               /\ ToNat(mm) \in 1..12
               /\ ToNat(dd) \in 1..DaysIn(ToNat(mm), ToNat(yyyy))

(* A handler works on the record a: the widgets a.w, the Field Store       *)
(* a.data, the row a.db, the events so far a.log, the number of update_rom *)
(* calls so far a.n and the exception in flight a.exc ("" for none).       *)
Handler(w, events) ==
    [w |-> w, data |-> data, db |-> db, log |-> events, n |-> 0, exc |-> ""]

HasRaised(events) == \E j \in 1..Len(events) : events[j].ev = "raise"

FailedUpdates(events) ==
    Cardinality({j \in 1..Len(events) : events[j].ev = "update" /\ ~events[j].ok})

\* the database fails an update at most MaxWriteFailures times
Budget(events) ==
    /\ write_failures' = write_failures + FailedUpdates(events)
    /\ write_failures' <= MaxWriteFailures

\* update_rom([var], [val]); a failure goes to db_failure(query, fatal=False),
\* which shows a message
update_rom(a, var, val, oks) ==
    LET ok == oks[a.n + 1]
    IN  [a EXCEPT
            !.db = IF ok THEN [@ EXCEPT ![var] = val] ELSE @,
            !.log = @ \o <<[ev |-> "update", var |-> var, val |-> val, ok |-> ok]>>
                      \o (IF ok THEN <<>> ELSE <<[ev |-> "message", var |-> var]>>),
            !.n = @ + 1]

RECURSIVE values_changed(_, _, _, _)

\* widgets.set_widget_value: a spinbox whose value changes emits valueChanged,
\* which is connected to values_changed; an exception of that slot does not
\* reach the caller
set_widget_value(a, var, v, upd, oks) ==
    IF a.w[var] = v THEN a
    ELSE LET a1 == [a EXCEPT !.w[var] = v]
         IN  IF var \in TextWidgets THEN a1
             ELSE [values_changed(a1, var, upd, oks) EXCEPT !.exc = ""]

\* widget._autocalculate() of the autowidget aw
_autocalculate(a, aw, upd, oks) ==
    LET r == _weight_normalize(a.w[_autoinputs[aw][1]], a.w[_autoinputs[aw][2]])
    IN  IF r.ok
        THEN set_widget_value(
                 [a EXCEPT !.log = Append(@, [ev |-> "calc", var |-> aw, val |-> r.v])],
                 aw, r.v, upd, oks)
        ELSE [a EXCEPT !.exc = r.exc,
                       !.log = Append(@, [ev |-> "raise", var |-> aw, exc |-> r.exc])]

\* for autowidget in autowidgets_this: autowidget._autocalculate()
RECURSIVE RunAutos(_, _, _, _)
RunAutos(a, autos, upd, oks) ==
    IF autos = <<>> \/ a.exc # "" THEN a
    ELSE RunAutos(_autocalculate(a, Head(autos), upd, oks), Tail(autos), upd, oks)

\* values_changed, had it stored the changed value before the autowidgets
\* are recalculated
values_changed_StoreFirst(a, var, upd, oks) ==
    LET autos == SelectSeq(autowidgets,
                     LAMBDA aw : \E j \in 1..Len(_autoinputs[aw]) : _autoinputs[aw][j] = var)
        a0 == IF upd
              THEN [a EXCEPT !.data[var] = a.w[var],
                             !.log = Append(@, [ev |-> "store", var |-> var, val |-> a.w[var]])]
              ELSE a
        a1 == RunAutos(a0, autos, upd, oks)
    IN  IF a1.exc # "" THEN a1
        ELSE IF upd THEN update_rom(a1, var, a1.w[var], oks)
        ELSE a1

\* EntryApp.values_changed(widget) with do_update_data = upd
values_changed(a, var, upd, oks) ==
    LET autos == SelectSeq(autowidgets,
                     LAMBDA aw : \E j \in 1..Len(_autoinputs[aw]) : _autoinputs[aw][j] = var)
        a1 == RunAutos(a, autos, upd, oks)
    IN  IF a1.exc # "" THEN a1
        ELSE IF upd
        THEN update_rom(
                 [a1 EXCEPT !.data[var] = a1.w[var],
                            !.log = Append(@, [ev |-> "store", var |-> var, val |-> a1.w[var]])],
                 var, a1.w[var], oks)
        ELSE a1

\* update_widgets: the loop over input_widgets, in the order todo
RECURSIVE SetWidgets(_, _, _)
SetWidgets(a, todo, oks) ==
    IF todo = <<>> THEN a
    ELSE SetWidgets(set_widget_value(a, Head(todo), a.data[Head(todo)], FALSE, oks),
                    Tail(todo), oks)

\* the orders in which findChildren may list the input widgets
WidgetOrders == {o \in [1..Cardinality(Vars) -> Vars] : \A v \in Vars : \E j \in DOMAIN o : o[j] = v}

\* the form is gone (closed, or the process ended): only the row remains
Gone(row, events, ph) ==
    /\ phase' = ph
    /\ widgets' = <<>>
    /\ focus' = FALSE
    /\ data' = <<>>
    /\ data_default' = <<>>
    /\ do_update_data' = FALSE
    /\ confirm_close' = TRUE
    /\ newly_created' = FALSE
    /\ db' = row
    /\ log' = events
    /\ Budget(events)

\* the form goes on in edit mode with what the handler left in a
Live(a) ==
    /\ phase' = "editing"
    /\ widgets' = a.w
    /\ data' = a.data
    /\ db' = a.db
    /\ log' = a.log
    /\ Budget(a.log)

\* a slot has returned; an unhandled exception of a slot ends the process or
\* is only reported, depending on the excepthook that is installed
AfterSlot(a) ==
    \/ Live(a)
    \/ /\ HasRaised(a.log)
       /\ Gone(a.db, a.log, "aborted")

\* __init__ has raised: no form is shown
Failed(row, events) ==
    /\ phase' = "failed"
    /\ widgets' = WidgetDefaults
    /\ focus' = FALSE
    /\ data' = WidgetDefaults
    /\ data_default' = WidgetDefaults
    /\ do_update_data' = TRUE
    /\ confirm_close' = TRUE
    /\ newly_created' = FALSE
    /\ db' = row
    /\ log' = events
    /\ Budget(events)

AppInit ==
    /\ RenderIdle
    /\ DerivedIdle
    /\ AppNone
    /\ ExcelIdle

NoForm == phase \in {"none", "closed", "failed", "aborted"}

\* OpenNew, had data_default been the dict self.data itself and not a copy
OpenNew_NoCopy(oks, patient_ok) ==
    /\ NoForm
    /\ LET row == [v \in Vars |-> NULL]
       IN  IF patient_ok
           THEN LET a0 == [w |-> [WidgetDefaults EXCEPT ![Pvm] = TxtV(Today)],
                           data |-> WidgetDefaults,
                           db |-> row,
                           log |-> <<[ev |-> "open"]>>, n |-> 0, exc |-> ""]
                IN  /\ Live(values_changed(a0, Pvm, TRUE, oks))
                    /\ focus' = FALSE
                    /\ data_default' = data'
                    /\ do_update_data' = TRUE
                    /\ confirm_close' = TRUE
                    /\ newly_created' = TRUE
           ELSE Failed(row, <<[ev |-> "open"],
                              [ev |-> "raise", var |-> "patients", exc |-> "RuntimeError"]>>)
    /\ UNCHANGED <<rvars, dvars, xvars>>

\* EntryApp.__init__(database, rom_id, newly_created=True) on a row that was
\* just inserted
OpenNew(oks, patient_ok) ==
    /\ NoForm
    /\ LET row == [v \in Vars |-> NULL]
       IN  IF patient_ok
           THEN LET a0 == [w |-> [WidgetDefaults EXCEPT ![Pvm] = TxtV(Today)],
                           data |-> WidgetDefaults,
                           db |-> row,
                           log |-> <<[ev |-> "open"]>>, n |-> 0, exc |-> ""]
                IN  /\ Live(values_changed(a0, Pvm, TRUE, oks))
                    /\ focus' = FALSE
                    /\ data_default' = WidgetDefaults
                    /\ do_update_data' = TRUE
                    /\ confirm_close' = TRUE
                    /\ newly_created' = TRUE
           ELSE Failed(row, <<[ev |-> "open"],
                              [ev |-> "raise", var |-> "patients", exc |-> "RuntimeError"]>>)
    /\ UNCHANGED <<rvars, dvars, xvars>>

\* OpenExisting, had a failed select been reported like a failed update
OpenExisting_SelectNonFatal(order, select_ok, patient_ok) ==
    /\ phase \in {"closed", "failed", "aborted"}
    /\ IF patient_ok
       THEN LET record_di == IF select_ok THEN {v \in Vars : db[v] # NULL} ELSE {}
                a0 == [w |-> WidgetDefaults,
                       data |-> [v \in Vars |-> IF v \in record_di THEN db[v] ELSE WidgetDefaults[v]],
                       db |-> db,
                       log |-> <<[ev |-> "open"], [ev |-> "select", ok |-> select_ok]>>,
                       n |-> 0, exc |-> ""]
            IN  /\ AfterSlot(SetWidgets(a0, order, [j \in DOMAIN Outcomes |-> TRUE]))
                /\ phase' = "editing" =>
                      /\ focus' = FALSE
                      /\ data_default' = WidgetDefaults
                      /\ do_update_data' = TRUE
                      /\ confirm_close' = TRUE
                      /\ newly_created' = FALSE
       ELSE Failed(db, <<[ev |-> "open"],
                         [ev |-> "raise", var |-> "patients", exc |-> "RuntimeError"]>>)
    /\ UNCHANGED <<rvars, dvars, xvars>>

\* EntryApp.__init__(database, rom_id, newly_created=False): read_data and
\* update_widgets
OpenExisting(order, select_ok, patient_ok) ==
    /\ phase \in {"closed", "failed", "aborted"}
    /\ IF patient_ok /\ select_ok
       THEN LET record_di == {v \in Vars : db[v] # NULL}
                a0 == [w |-> WidgetDefaults,
                       data |-> [v \in Vars |-> IF v \in record_di THEN db[v] ELSE WidgetDefaults[v]],
                       db |-> db,
                       log |-> <<[ev |-> "open"], [ev |-> "select", ok |-> TRUE]>>,
                       n |-> 0, exc |-> ""]
            IN  /\ AfterSlot(SetWidgets(a0, order, [j \in DOMAIN Outcomes |-> TRUE]))
                /\ phase' = "editing" =>
                      /\ focus' = FALSE
                      /\ data_default' = WidgetDefaults
                      /\ do_update_data' = TRUE
                      /\ confirm_close' = TRUE
                      /\ newly_created' = FALSE
       ELSE Failed(db, IF patient_ok
                       THEN <<[ev |-> "open"], [ev |-> "select", ok |-> FALSE],
                              [ev |-> "raise", var |-> "roms", exc |-> "RuntimeError"]>>
                       ELSE <<[ev |-> "open"],
                              [ev |-> "raise", var |-> "patients", exc |-> "RuntimeError"]>>)
    /\ UNCHANGED <<rvars, dvars, xvars>>

\* what a handler leaves alone while the form goes on
SameForm ==
    phase' = "editing" =>
        UNCHANGED <<data_default, do_update_data, confirm_close, newly_created>>

\* the user changes the value of an enabled spinbox: valueChanged
SpinEdit(var, v, oks) ==
    /\ phase = "editing"
    /\ ~focus
    /\ v # widgets[var]
    /\ AfterSlot(values_changed(
                    Handler([widgets EXCEPT ![var] = v],
                            <<[ev |-> "changed", var |-> var, val |-> v]>>),
                    var, do_update_data, oks))
    /\ phase' = "editing" => focus' = focus
    /\ SameForm
    /\ UNCHANGED <<rvars, dvars, xvars>>

\* the user puts the cursor into the date field and leaves the text t there
TypeText(t) ==
    /\ phase = "editing"
    /\ widgets' = [widgets EXCEPT ![Pvm] = TxtV(t)]
    /\ focus' = TRUE
    /\ log' = <<[ev |-> "typed"]>>
    /\ UNCHANGED <<rvars, dvars, xvars, phase, data, data_default, do_update_data,
                   confirm_close, newly_created, db, write_failures>>

\* eventFilter: the date field loses the focus
FocusOut(oks) ==
    /\ phase = "editing"
    /\ focus
    /\ Live(values_changed(
                Handler(widgets, <<[ev |-> "changed", var |-> Pvm, val |-> widgets[Pvm]]>>),
                Pvm, do_update_data, oks))
    /\ focus' = FALSE
    /\ SameForm
    /\ UNCHANGED <<rvars, dvars, xvars>>

\* closeEvent, had it closed without validating the date
closeEvent_NoValidate(confirm, oks, json_ok) ==
    LET a == IF focus
             THEN values_changed(
                      Handler(widgets, <<[ev |-> "close", confirm |-> confirm],
                                         [ev |-> "changed", var |-> Pvm, val |-> widgets[Pvm]]>>),
                      Pvm, do_update_data, oks)
             ELSE Handler(widgets, <<[ev |-> "close", confirm |-> confirm]>>)
    IN  IF newly_created /\ ~json_ok
        THEN \E ph \in {"closed", "aborted"} :
                 Gone(a.db, Append(a.log, [ev |-> "raise", var |-> "patients",
                                           exc |-> "RuntimeError"]), ph)
        ELSE Gone(a.db, a.log \o <<[ev |-> "closing"], [ev |-> "accept"]>>, "closed")

\* closeEvent with confirm_close = confirm: setFocus() takes the focus from
\* the date field, then do_close or the refusal.  json_ok: for the JSON
\* backup of a newly created record do_close reads the patient, which can
\* raise before the closing signal; the window closes all the same.
closeEvent(confirm, oks, json_ok) ==
    LET a == IF focus
             THEN values_changed(
                      Handler(widgets, <<[ev |-> "close", confirm |-> confirm],
                                         [ev |-> "changed", var |-> Pvm, val |-> widgets[Pvm]]>>),
                      Pvm, do_update_data, oks)
             ELSE Handler(widgets, <<[ev |-> "close", confirm |-> confirm]>>)
    IN  IF ~confirm \/ _validate_date(a.data[Pvm].s)
        THEN IF newly_created /\ ~json_ok
             THEN \E ph \in {"closed", "aborted"} :
                      Gone(a.db, Append(a.log, [ev |-> "raise", var |-> "patients",
                                                exc |-> "RuntimeError"]), ph)
             ELSE Gone(a.db, a.log \o <<[ev |-> "closing"], [ev |-> "accept"]>>, "closed")
        ELSE /\ Live([a EXCEPT !.log = @ \o <<[ev |-> "message", var |-> Pvm],
                                               [ev |-> "ignore"]>>])
             /\ focus' = FALSE
             /\ SameForm

\* the user closes the window
Close(oks, json_ok) ==
    /\ phase = "editing"
    /\ closeEvent(confirm_close, oks, json_ok)
    /\ UNCHANGED <<rvars, dvars, xvars>>

\* EntryApp.force_close
force_close(oks, json_ok) ==
    /\ phase = "editing"
    /\ closeEvent(FALSE, oks, json_ok)
    /\ UNCHANGED <<rvars, dvars, xvars>>

\* EntryApp.vars_at_default
vars_at_default == {var \in DOMAIN data : data[var] = data_default[var]}

\* EntryApp.make_text_report or EntryApp.make_excel_report: the reporter is
\* handed a new dict (the data with units, or self.data | self.patient_data)
\* and vars_at_default; patient_data can raise
AppReport(patient_ok) ==
    /\ phase = "editing"
    /\ log' = IF patient_ok
              THEN <<[ev |-> "report", at_default |-> vars_at_default]>>
              ELSE <<[ev |-> "report"],
                     [ev |-> "raise", var |-> "patients", exc |-> "RuntimeError"]>>
    /\ UNCHANGED <<rvars, dvars, xvars, phase, widgets, focus, data, data_default,
                   do_update_data, confirm_close, newly_created, db, write_failures>>

AppNext ==
    \/ \E oks \in Outcome, patient_ok \in BOOLEAN : OpenNew(oks, patient_ok)
    \/ \E order \in WidgetOrders, select_ok, patient_ok \in BOOLEAN :
          OpenExisting(order, select_ok, patient_ok)
    \/ \E v \in WeightEdits, oks \in Outcomes : SpinEdit(Paino, v, oks)
    \/ \E v \in RawEdits, oks \in Outcomes : SpinEdit(NormUn, v, oks)
    \/ \E t \in PvmTexts : TypeText(t)
    \/ \E oks \in Outcome : FocusOut(oks)
    \/ \E oks \in Outcome, json_ok \in BOOLEAN : Close(oks, json_ok)
    \/ \E oks \in Outcome, json_ok \in BOOLEAN : force_close(oks, json_ok)
    \/ \E patient_ok \in BOOLEAN : AppReport(patient_ok)

Spec == AppInit /\ [][AppNext]_vars

-----------------------------------------------------------------------------
(* Properties of the form *)

\* C6 as claimed: whenever a report can be requested (the form is in edit
\* mode, between two handlers), every derived field of the Field Store is
\* its computation applied to the current values of its inputs.
C6_DerivedConsistent ==
    phase = "editing" =>
        \A j \in 1..Len(autowidgets) :
            LET aw == autowidgets[j]
                r == _weight_normalize(data[_autoinputs[aw][1]], data[_autoinputs[aw][2]])
            IN  r.ok /\ data[aw] = r.v

\* the change of an input widget that the last handler was called for
ChangedAt == {j \in 1..Len(log) : log[j].ev = "changed"}
UpdatesOf(var) == {j \in 1..Len(log) : log[j].ev = "update" /\ log[j].var = var}

\* C9 as claimed: every change handled by values_changed while updates are
\* enabled is stored in the Field Store and written through by one update
\* of exactly that field with exactly the stored value; after a successful
\* update the row holds the value of the Field Store.
C9_WriteThrough ==
    (phase = "editing" /\ do_update_data) =>
        \A c \in ChangedAt :
            /\ data[log[c].var] = log[c].val
            /\ Cardinality(UpdatesOf(log[c].var)) = 1
            /\ \A u \in UpdatesOf(log[c].var) :
                  /\ log[u].val = data[log[c].var]
                  /\ log[u].ok => db[log[c].var] = data[log[c].var]

\* C10 as claimed: once a write-through has failed, the failure is shown as
\* a message and not raised, the Field Store keeps the entered value, the
\* update is not repeated, and every later edit is stored and attempts its
\* own update.
C10_WriteFailureNonFatal ==
    (phase = "editing" /\ write_failures >= 1) =>
        /\ \A j \in 1..Len(log) :
              (log[j].ev = "update" /\ ~log[j].ok) =>
                  /\ j < Len(log)
                  /\ log[j + 1] = [ev |-> "message", var |-> log[j].var]
                  /\ data[log[j].var] = log[j].val
                  /\ Cardinality(UpdatesOf(log[j].var)) = 1
        /\ \A c \in ChangedAt :
              /\ data[log[c].var] = log[c].val
              /\ UpdatesOf(log[c].var) # {}

SelectFailed(events) ==
    \E j \in 1..Len(events) : events[j] = [ev |-> "select", ok |-> FALSE]
UpdatesIn(events) == {j \in 1..Len(events) : events[j].ev = "update"}

\* C11: when the select of read_data fails or finds no row, __init__ raises:
\* the form does not enter edit mode, the Field Store and the widgets keep
\* the widget defaults whatever the row holds, no update is issued and the
\* row is as it was.
C11_FatalLoad ==
    [][SelectFailed(log') =>
          /\ phase' = "failed"
          /\ HasRaised(log')
          /\ data' = WidgetDefaults
          /\ widgets' = WidgetDefaults
          /\ UpdatesIn(log') = {}
          /\ db' = db
          /\ write_failures' = write_failures]_vars

C11_Witness ==
    /\ phase = "failed"
    /\ SelectFailed(log)
    /\ db[Paino] # NULL
    /\ data[Paino] = spinbox_novalue_text

Has(events, e) == \E j \in 1..Len(events) : events[j].ev = e

\* a step that handles a close event of the form (UI close or force_close)
CloseStep == phase = "editing" /\ log' # <<>> /\ log'[1].ev = "close"

DateAtClose == IF focus /\ do_update_data THEN widgets[Pvm] ELSE data[Pvm]

StoresOf(var) == {j \in 1..Len(log) : log[j].ev = "store" /\ log[j].var = var}
\* recalculations of autowidgets, and what they store and write
Recomputed ==
    {j \in 1..Len(log) :
        /\ log[j].ev \in {"calc", "raise"}
        /\ \E m \in 1..Len(autowidgets) : autowidgets[m] = log[j].var}
DerivedWrites ==
    {j \in 1..Len(log) :
        /\ log[j].ev \in {"store", "update"}
        /\ \E m \in 1..Len(autowidgets) : autowidgets[m] = log[j].var}

C16_DefaultSnapshot ==
    [][phase' = "editing" =>
          /\ data_default' = WidgetDefaults
          /\ phase = "editing" => data_default' = data_default
          /\ DOMAIN data' = DOMAIN data_default'
          /\ \A j \in 1..Len(log') :
                (log'[j].ev = "report" /\ "at_default" \in DOMAIN log'[j]) =>
                    log'[j].at_default = {v \in Vars : data'[v] = WidgetDefaults[v]}]_vars

\* a report of a loaded record whose weight is not at its default
C16_Witness ==
    /\ phase = "editing"
    /\ ~newly_created
    /\ log # <<>> /\ log[1].ev = "report"
    /\ "at_default" \in DOMAIN log[1]
    /\ data[Paino] # data_default[Paino]
    /\ log[1].at_default = {NormUn, Norm}

\* a step in which __init__ read an existing record and ran update_widgets
OpenedExisting == log' # <<>> /\ log'[1].ev = "open" /\ Has(log', "select") /\ ~SelectFailed(log')

\* the Field Store read_data builds: the defaults overridden by the non-NULL
\* values of the row
Loaded == [v \in Vars |-> IF db[v] # NULL THEN db[v] ELSE WidgetDefaults[v]]

\* opening an existing record writes nothing: no update is issued, the row
\* is as it was, nothing is stored in the Field Store while the widgets are
\* set, and do_update_data is TRUE again when the form is in edit mode
OpenIsReadOnly ==
    [][OpenedExisting =>
          /\ UpdatesIn(log') = {}
          /\ ~Has(log', "store")
          /\ db' = db
          /\ write_failures' = write_failures
          /\ phase' = "editing" => (data' = Loaded /\ do_update_data')]_vars

\* C17 as claimed: opening an existing record issues no update and leaves
\* the Field Store as read_data built it, though the change handlers and the
\* recalculations run; and after that every user edit of the form is stored
\* in the Field Store and attempts its update.
C17_OpenFrame ==
    [][/\ OpenedExisting =>
             /\ UpdatesIn(log') = {}
             /\ ~Has(log', "store")
             /\ db' = db
             /\ phase' = "editing" => (data' = Loaded /\ do_update_data')
       /\ (phase = "editing" /\ ~newly_created /\ log' # log) =>
             \A c \in {j \in 1..Len(log') : log'[j].ev = "changed"} :
                 /\ \E j \in 1..Len(log') :
                       log'[j] = [ev |-> "store", var |-> log'[c].var, val |-> log'[c].val]
                 /\ \E j \in UpdatesIn(log') :
                       log'[j].var = log'[c].var /\ log'[j].val = log'[c].val]_vars

\* a loaded record whose widgets were set from a row with values
OpenIsReadOnly_Witness ==
    /\ phase = "editing"
    /\ ~newly_created
    /\ log # <<>> /\ log[1].ev = "open"
    /\ Has(log, "calc")
    /\ widgets[Paino] = NumV(2)
    /\ widgets[Norm] = Quot(1, 2)

====
